---- MODULE Spec2Model ----
(***************************************************************************)
(* A model of app.py: the /convert handler of the GitHub-to-markdown       *)
(* service, with the helpers it calls (parse_github_url,                   *)
(* get_default_branch, get_repo_files, get_file_content).                  *)
(*                                                                         *)
(* Representation.                                                         *)
(*  - A URL is a record [prefix, tail]: prefix is the text up to and       *)
(*    including the host separator, tail is the rest as a sequence of      *)
(*    tokens.  The tokens "o", "r", "x", "tree", "main" are name text with *)
(*    no "/" and no "."; "/" is the slash; ".git" is the text ".git".      *)
(*    No token other than ".git" contains "." or ends in "t", so the       *)
(*    regular expressions and endswith('.git') act on token boundaries.    *)
(*  - A text (str) is a sequence of Unicode code points; a payload (bytes) *)
(*    is a sequence of byte values.                                        *)
(*  - Python's None is a value of its own: NoneStr for a str-or-None,      *)
(*    and a record with none |-> TRUE for a list-or-None / text-or-None.   *)
(***************************************************************************)
EXTENDS Integers, Sequences, FiniteSets, TLC

VARIABLES
    request,          \* the JSON body of the POST: [has_url, url]
    pc,               \* position of convert_repo
    owner, repo,      \* result of parse_github_url
    default_branch,   \* result of get_default_branch
    files_to_process, \* result of get_repo_files
    idx,              \* position of the for loop in files_to_process
    markdown_content, \* list of document parts
    processed_count, skipped_count,
    result,           \* what convert_repo returned: [status, final_markdown]
    calls,            \* every requests.get made so far, in order
    inflight,         \* the requests.get calls not yet answered
    hung,             \* the call in flight will never be answered
    meta_resp, tree_resp, blob_resp,   \* the last answer to each kind of call
    arg, ret          \* input and output of a helper applied on its own

vars == << request, pc, owner, repo, default_branch, files_to_process, idx,
           markdown_content, processed_count, skipped_count, result, calls,
           inflight, hung, meta_resp, tree_resp, blob_resp, arg, ret >>

----------------------------------------------------------------------------
(* Bounds *)

\* longest generated URL tail, in tokens
MaxTail == 4
\* most entries in a tree response
MaxTree == 2
\* longest generated file text, in code points
MaxText == 5

----------------------------------------------------------------------------
(* Generic helpers *)

SeqsUpTo(S, n) == UNION { [1..k -> S] : k \in 0..n }

Last(s) == s[Len(s)]

Front(s) == SubSeq(s, 1, Len(s) - 1)

\* Python's None where a str is expected
NoneStr == << "<None>" >>

\* Python truthiness of a str-or-None
Truthy(s) == s # NoneStr /\ s # << >>

----------------------------------------------------------------------------
(* parse_github_url *)

HttpsPrefixes == { "https://github.com/", "http://github.com/" }

SshPrefixes == { "git@github.com:" }

Prefixes == HttpsPrefixes \cup SshPrefixes
                \cup { "ftp://example.com/", "https://gitlab.com/" }

TailTokens == { "o", "r", "/", ".git" }

\* length of the longest run of tokens other than "/" that starts at s[i]
RECURSIVE RunLen(_, _)
RunLen(s, i) ==
    IF i > Len(s) \/ s[i] = "/" THEN 0 ELSE 1 + RunLen(s, i + 1)

\* Outcome of re.match: [matched, owner, repo]
NoMatch == [matched |-> FALSE, owner |-> NoneStr, repo |-> NoneStr]

\* r"https?://github\.com/([^/]+)/([^/]+)/?.*"
\* Both groups are greedy and what follows them ("/" resp. "/?.*") leaves no
\* shorter choice: each group is the whole run of non-slash text.
MatchHttps(url) ==
    LET t  == url.tail
        n1 == RunLen(t, 1)
        n2 == RunLen(t, n1 + 2)
    IN  IF /\ url.prefix \in HttpsPrefixes
           /\ n1 >= 1
           /\ n1 + 1 <= Len(t)
           /\ t[n1 + 1] = "/"
           /\ n2 >= 1
        THEN [matched |-> TRUE,
              owner   |-> SubSeq(t, 1, n1),
              repo    |-> SubSeq(t, n1 + 2, n1 + 1 + n2)]
        ELSE NoMatch

\* r"git@github\.com:([^/]+)/([^/]+)\.git"
\* The second group is greedy and backtracks to the last ".git" of the run
\* that leaves it at least one character.
MatchSsh(url) ==
    LET t  == url.tail
        n1 == RunLen(t, 1)
        n2 == RunLen(t, n1 + 2)
        ks == { k \in 1..(n2 - 1) : t[n1 + 1 + k + 1] = ".git" }
        k  == CHOOSE x \in ks : \A y \in ks : y <= x
    IN  IF /\ url.prefix \in SshPrefixes
           /\ n1 >= 1
           /\ n1 + 1 <= Len(t)
           /\ t[n1 + 1] = "/"
           /\ ks # {}
        THEN [matched |-> TRUE,
              owner   |-> SubSeq(t, 1, n1),
              repo    |-> SubSeq(t, n1 + 2, n1 + 1 + k)]
        ELSE NoMatch

\* repo.endswith('.git')
EndsWithGit(s) == Len(s) >= 1 /\ Last(s) = ".git"

\* the suffix left on
StripGit_Kept(s) == s

\* "if repo.endswith('.git'): repo = repo[:-4]"
StripGit(s) == IF EndsWithGit(s) THEN Front(s) ELSE s

\* The loop over the two patterns: the first that matches returns.
parse_github_url(url) ==
    LET m1 == MatchHttps(url)
        m2 == MatchSsh(url)
        m  == IF m1.matched THEN m1 ELSE m2
    IN  IF m.matched
        THEN [owner |-> m.owner, repo |-> StripGit(m.repo)]
        ELSE [owner |-> NoneStr, repo |-> NoneStr]

----------------------------------------------------------------------------
(* The URLs the model feeds to the parser *)

Url(p, t) == [prefix |-> p, tail |-> t]

UrlPlain == Url("https://github.com/", << "o", "/", "r" >>)

UrlDotGit == Url("https://github.com/", << "o", "/", "r", ".git" >>)

UrlTree ==
    Url("https://github.com/", << "o", "/", "r", "/", "tree", "/", "main" >>)

UrlSsh == Url("git@github.com:", << "o", "/", "r", ".git" >>)

UrlFtp == Url("ftp://example.com/", << "x" >>)

UrlOnlyGit == Url("https://github.com/", << "o", "/", ".git" >>)

NamedUrls == { UrlPlain, UrlDotGit, UrlTree, UrlSsh, UrlFtp, UrlOnlyGit }

ParseUrls ==
    NamedUrls \cup { Url(p, t) : p \in Prefixes, t \in SeqsUpTo(TailTokens, MaxTail) }

----------------------------------------------------------------------------
(* Text: str.splitlines, str.strip, '\n'.join, bytes.decode('utf-8') *)

\* the code point of "\n", the separator of '\n'.join
NL == 10

\* the code point of "\r", which forms one line break with a following "\n"
CR == 13

\* the characters str.splitlines breaks a line at
LineBreaks == { 10, 11, 12, 13, 28, 29, 30, 133, 8232, 8233 }

\* the characters str.strip removes (str.isspace)
Whitespace ==
    (9..13) \cup (28..32) \cup { 133, 160, 5760 } \cup (8192..8202)
        \cup { 8232, 8233, 8239, 8287, 12288 }

\* index of the first line break of s, Len(s) + 1 when there is none
RECURSIVE FirstBreak(_, _)
FirstBreak(s, i) ==
    IF i > Len(s) \/ s[i] \in LineBreaks THEN i ELSE FirstBreak(s, i + 1)

\* content.splitlines(): "\r\n" is one break, and a break at the very end
\* opens no further line
RECURSIVE splitlines(_)
splitlines(s) ==
    IF s = << >> THEN << >>
    ELSE LET j    == FirstBreak(s, 1)
             stop == IF j + 1 <= Len(s) /\ s[j] = CR /\ s[j + 1] = NL
                     THEN j + 1 ELSE j
         IN  << SubSeq(s, 1, j - 1) >> \o splitlines(SubSeq(s, stop + 1, Len(s)))

RECURSIVE LStrip(_)
LStrip(s) ==
    IF s # << >> /\ Head(s) \in Whitespace THEN LStrip(Tail(s)) ELSE s

RECURSIVE RStrip(_)
RStrip(s) ==
    IF s # << >> /\ Last(s) \in Whitespace THEN RStrip(Front(s)) ELSE s

\* line.strip()
strip(s) == RStrip(LStrip(s))

\* "[line for line in lines if line.strip()]"
NonBlank(line) == strip(line) # << >>

\* the kept lines trimmed as well as tested
non_blank_lines_Stripped(lines) ==
    LET kept == SelectSeq(lines, NonBlank)
    IN  [i \in 1..Len(kept) |-> strip(kept[i])]

non_blank_lines(lines) == SelectSeq(lines, NonBlank)

\* sep.join(parts)
RECURSIVE join(_, _)
join(sep, parts) ==
    IF parts = << >> THEN << >>
    ELSE IF Len(parts) = 1 THEN parts[1]
    ELSE parts[1] \o sep \o join(sep, Tail(parts))

\* lines 152-154: the body of a text file's section
processed_content(content) ==
    join(<< NL >>, non_blank_lines(splitlines(content)))

\* a continuation byte 10xxxxxx
IsCont(b) == b \in 128..191

\* Number of bytes of the well-formed UTF-8 sequence that starts s, 0 when s
\* starts with none (strict decoding: no overlong forms, no surrogates,
\* nothing above U+10FFFF).
Utf8Width(s) ==
    LET b == s[1]
        c(i) == IF i <= Len(s) THEN s[i] ELSE 0
    IN  IF b <= 127 THEN 1
        ELSE IF b \in 194..223 /\ IsCont(c(2)) THEN 2
        ELSE IF /\ b \in 224..239
                /\ IsCont(c(2)) /\ IsCont(c(3))
                /\ (b = 224 => c(2) >= 160)
                /\ (b = 237 => c(2) <= 159) THEN 3
        ELSE IF /\ b \in 240..244
                /\ IsCont(c(2)) /\ IsCont(c(3)) /\ IsCont(c(4))
                /\ (b = 240 => c(2) >= 144)
                /\ (b = 244 => c(2) <= 143) THEN 4
        ELSE 0

\* the code point a well-formed sequence of w bytes encodes
Utf8Point(s, w) ==
    IF w = 1 THEN s[1]
    ELSE IF w = 2 THEN (s[1] - 192) * 64 + (s[2] - 128)
    ELSE IF w = 3 THEN (s[1] - 224) * 4096 + (s[2] - 128) * 64 + (s[3] - 128)
    ELSE (s[1] - 240) * 262144 + (s[2] - 128) * 4096
             + (s[3] - 128) * 64 + (s[4] - 128)

\* a text-or-None
NoneText == [none |-> TRUE, text |-> << >>]

SomeText(t) == [none |-> FALSE, text |-> t]

\* content_bytes.decode('utf-8'), with none |-> TRUE for UnicodeDecodeError
RECURSIVE decode_utf8(_)
decode_utf8(s) ==
    IF s = << >> THEN SomeText(<< >>)
    ELSE LET w == Utf8Width(s)
         IN  IF w = 0 THEN NoneText
             ELSE LET rest == decode_utf8(SubSeq(s, w + 1, Len(s)))
                  IN  IF rest.none THEN NoneText
                      ELSE SomeText(<< Utf8Point(s, w) >> \o rest.text)

----------------------------------------------------------------------------
(* The hosting API: what requests.get can bring back *)

\* outcomes of requests.get + raise_for_status that raise RequestException
Failures == { "transport", "http_error" }

NoneBranch == "<None>"

\* Answers to GET /repos/{owner}/{repo}: a failure, or a JSON object in which
\* default_branch is absent, null, empty or a branch name.
MetaResponses ==
    { [kind |-> k, has_branch |-> FALSE, default_branch |-> ""] :
        k \in Failures \cup { "ok" } }
    \cup { [kind |-> "ok", has_branch |-> TRUE, default_branch |-> b] :
             b \in { NoneBranch, "", "dev" } }

BlobA == [path |-> "a.txt", type |-> "blob", url |-> "blobs/1"]

BlobB == [path |-> "b.bin", type |-> "blob", url |-> "blobs/2"]

DirS == [path |-> "src", type |-> "tree", url |-> "trees/3"]

TreeItems == { BlobA, BlobB, DirS }

\* Answers to GET .../git/trees/{branch}?recursive=1: a failure, a body that
\* cannot be processed, or a JSON object with an optional "truncated" flag
\* and an optional "tree" list.
TreeResponses ==
    { [kind |-> k, truncated |-> FALSE, has_tree |-> FALSE, tree |-> << >>] :
        k \in Failures \cup { "bad_json", "ok" } }
    \cup { [kind |-> "ok", truncated |-> t, has_tree |-> TRUE, tree |-> tr] :
             t \in BOOLEAN, tr \in SeqsUpTo(TreeItems, MaxTree) }

\* "h\n\nw" (the shape of "hello\n\nworld"), "a\n\n  \nb\n", " a \r\nb", "",
\* C3 A9 (e acute), a lone lead byte C3, a byte FF after "a", and C2 A0 0A
\* (a line holding one no-break space)
Payloads ==
    { << >>,
      << 104, 10, 10, 119 >>,
      << 97, 10, 10, 32, 32, 10, 98, 10 >>,
      << 32, 97, 32, 13, 10, 98 >>,
      << 195, 169 >>,
      << 195 >>,
      << 97, 255 >>,
      << 194, 160, 10 >> }

\* Answers to GET on a blob url: a failure, a body that cannot be processed,
\* or a JSON object with an "encoding" and a "content"; content is given by
\* the bytes its base64 text stands for, or is absent or not base64 at all.
BlobResponses ==
    { [kind |-> k, encoding |-> "", content |-> "absent", bytes |-> << >>] :
        k \in Failures \cup { "bad_json" } }
    \cup { [kind |-> "ok", encoding |-> e, content |-> "valid",
            bytes |-> << 97, 255 >>] : e \in { "utf-8", "<absent>" } }
    \cup { [kind |-> "ok", encoding |-> "base64", content |-> c,
            bytes |-> << >>] : c \in { "absent", "malformed" } }
    \cup { [kind |-> "ok", encoding |-> "base64", content |-> "valid",
            bytes |-> b] : b \in Payloads }

----------------------------------------------------------------------------
(* get_default_branch, get_repo_files, get_file_content *)

\* lines 41-47: the field, 'main' when the key is missing, None on an error
get_default_branch(resp) ==
    IF resp.kind # "ok" THEN NoneBranch
    ELSE IF resp.has_branch THEN resp.default_branch
    ELSE "main"

\* a list-or-None
NoneFiles == [none |-> TRUE, list |-> << >>]

SomeFiles(l) == [none |-> FALSE, list |-> l]

IsBlob(item) == item.type = "blob"

FileInfo(item) == [path |-> item.path, url |-> item.url]

\* the blobs collected last entry first
all_files_Reversed(tree) ==
    LET blobs == SelectSeq(tree, IsBlob)
    IN  [i \in 1..Len(blobs) |-> FileInfo(blobs[Len(blobs) + 1 - i])]

\* lines 63-67: the blobs of the tree, in the order of the tree
all_files(tree) ==
    LET blobs == SelectSeq(tree, IsBlob)
    IN  [i \in 1..Len(blobs) |-> FileInfo(blobs[i])]

\* lines 53-73
get_repo_files(resp) ==
    IF resp.kind # "ok" THEN NoneFiles
    ELSE SomeFiles(all_files(IF resp.has_tree THEN resp.tree ELSE << >>))

\* a payload that is not UTF-8 handed on as it is instead of None
get_file_content_Raw(resp) ==
    IF resp.kind # "ok" THEN NoneText
    ELSE IF resp.encoding = "base64"
         THEN IF resp.content # "valid" THEN NoneText
              ELSE IF decode_utf8(resp.bytes).none THEN SomeText(resp.bytes)
              ELSE decode_utf8(resp.bytes)
         ELSE NoneText

\* lines 78-100
get_file_content(resp) ==
    IF resp.kind # "ok" THEN NoneText
    ELSE IF resp.encoding = "base64"
         THEN IF resp.content # "valid" THEN NoneText
              ELSE decode_utf8(resp.bytes)
         ELSE NoneText

----------------------------------------------------------------------------
(* The document: a str built from fixed pieces, names and file text is a    *)
(* sequence of atoms; a character of file text and "\n" are Chr atoms.      *)

Atom(k, p, o, r, c) == [kind |-> k, path |-> p, owner |-> o, repo |-> r, cp |-> c]

Chr(c) == Atom("chr", "", << >>, << >>, c)

Lit(k) == Atom(k, "", << >>, << >>, 0)

\* a text as a str of the document
Str(text) == [i \in 1..Len(text) |-> Chr(text[i])]

\* f"# Codebase for {owner}/{repo}\n\n"
TitleStr(o, r) == << Atom("title", "", o, r, 0), Chr(NL), Chr(NL) >>

\* f"## `{file_path}`\n"
HeadingStr(path) == << Atom("heading", path, << >>, << >>, 0), Chr(NL) >>

\* "```"
FenceOpenStr == << Lit("fence") >>

\* "```\n"
FenceCloseStr == << Lit("fence"), Chr(NL) >>

\* "---\n"
SeparatorStr == << Lit("separator"), Chr(NL) >>

\* "*Content skipped (binary, non-UTF8, or error fetching).*\n"
SkipNoticeStr == << Lit("skip_notice"), Chr(NL) >>

\* lines 150-171: what one file adds to markdown_content
Section(path, content) ==
    IF ~content.none
    THEN << HeadingStr(path), FenceOpenStr,
            Str(processed_content(content.text)), FenceCloseStr, SeparatorStr >>
    ELSE << HeadingStr(path), SkipNoticeStr, SeparatorStr >>

\* a skipped file left out of the tally
Counted_SkipLost(content, processed, skipped) ==
    IF ~content.none
    THEN [processed |-> processed + 1, skipped |-> skipped]
    ELSE [processed |-> processed, skipped |-> skipped]

\* lines 165 and 168
Counted(content, processed, skipped) ==
    IF ~content.none
    THEN [processed |-> processed + 1, skipped |-> skipped]
    ELSE [processed |-> processed, skipped |-> skipped + 1]

\* line 173
final_markdown(parts) == join(<< Chr(NL) >>, parts)

----------------------------------------------------------------------------
(* convert_repo *)

\* line 112: "if not data or 'url' not in data"
MissingUrl(data) == ~data.has_url

\* line 118: "if not owner or not repo"
InvalidUrl(o, r) == ~Truthy(o) \/ ~Truthy(r)

\* line 124: "if not default_branch"
NoBranch(b) == b = NoneBranch \/ b = ""

\* the None test left out: None then falls to "if not files_to_process"
NoFileList_Skipped(files) == FALSE

\* line 130: "if files_to_process is None"
NoFileList(files) == files.none

\* line 132: "if not files_to_process"
EmptyRepo(files) == files.list = << >>

\* the requests.get calls: lines 40-42, 51-54 and 79
Call(k, o, r, b, u) == [kind |-> k, owner |-> o, repo |-> r, branch |-> b, url |-> u]

MetaCall(o, r) == Call("meta", o, r, "", "")

TreeCall(o, r, b) == Call("tree", o, r, b, "")

BlobCall(file_info) == Call("blob", << >>, << >>, "", file_info.url)

NoResult == [status |-> 0, error |-> "", final_markdown |-> << >>]

\* the error path starting over instead of returning
Fail_Restart(status, error) ==
    /\ pc' = "start"
    /\ result' = NoResult

\* "return jsonify({"error": ...}), status"
Fail(status, error) ==
    /\ pc' = "done"
    /\ result' = [status |-> status, error |-> error, final_markdown |-> << >>]

\* line 177: "return Response(final_markdown, mimetype='text/markdown')"
Succeed(parts) ==
    /\ pc' = "done"
    /\ result' = [status |-> 200, error |-> "", final_markdown |-> final_markdown(parts)]

\* a call made a second time
Issue_Twice(pending, call) ==
    /\ calls' = Append(Append(calls, call), call)
    /\ inflight' = Append(pending, call)

\* requests.get is entered: the call is on the wire
Issue(pending, call) ==
    /\ calls' = Append(calls, call)
    /\ inflight' = Append(pending, call)

\* lines 111-123, up to the requests.get of get_default_branch
ConvertStart ==
    /\ pc = "start"
    /\ IF MissingUrl(request)
       THEN /\ Fail(400, "missing_url")
            /\ UNCHANGED << owner, repo, calls, inflight >>
       ELSE LET p == parse_github_url(request.url)
            IN  /\ owner' = p.owner
                /\ repo' = p.repo
                /\ IF InvalidUrl(p.owner, p.repo)
                   THEN /\ Fail(400, "invalid_url")
                        /\ UNCHANGED << calls, inflight >>
                   ELSE /\ pc' = "meta_wait"
                        /\ Issue(inflight, MetaCall(p.owner, p.repo))
                        /\ UNCHANGED result
    /\ UNCHANGED << request, default_branch, files_to_process, idx,
                    markdown_content, processed_count, skipped_count, hung,
                    meta_resp, tree_resp, blob_resp, arg, ret >>

\* lines 42-47 and 123-129, up to the requests.get of get_repo_files
MetaResponse(resp) ==
    /\ pc = "meta_wait"
    /\ ~hung
    /\ meta_resp' = resp
    /\ LET b == get_default_branch(resp)
       IN  /\ default_branch' = b
           /\ IF NoBranch(b)
              THEN /\ Fail(404, "no_branch")
                   /\ calls' = calls
                   /\ inflight' = Tail(inflight)
              ELSE /\ pc' = "tree_wait"
                   /\ Issue(Tail(inflight), TreeCall(owner, repo, b))
                   /\ UNCHANGED result
    /\ UNCHANGED << request, owner, repo, files_to_process, idx,
                    markdown_content, processed_count, skipped_count, hung,
                    tree_resp, blob_resp, arg, ret >>

\* lines 54-73 and 129-148, up to the requests.get for the first file
TreeResponse(resp) ==
    /\ pc = "tree_wait"
    /\ ~hung
    /\ tree_resp' = resp
    /\ LET files == get_repo_files(resp)
       IN  /\ files_to_process' = files
           /\ IF NoFileList(files)
              THEN /\ Fail(500, "no_file_list")
                   /\ calls' = calls
                   /\ inflight' = Tail(inflight)
                   /\ UNCHANGED << idx, markdown_content, processed_count,
                                   skipped_count >>
              ELSE IF EmptyRepo(files)
              THEN /\ Fail(404, "empty_repo")
                   /\ calls' = calls
                   /\ inflight' = Tail(inflight)
                   /\ UNCHANGED << idx, markdown_content, processed_count,
                                   skipped_count >>
              ELSE /\ markdown_content' = << TitleStr(owner, repo) >>
                   /\ processed_count' = 0
                   /\ skipped_count' = 0
                   /\ idx' = 1
                   /\ pc' = "blob_wait"
                   /\ Issue(Tail(inflight), BlobCall(files.list[1]))
                   /\ UNCHANGED result
    /\ UNCHANGED << request, owner, repo, default_branch, hung, meta_resp,
                    blob_resp, arg, ret >>

\* lines 79-100 and 150-171 for the file at idx, then either the requests.get
\* for the next file or lines 173-177
BlobResponse(resp) ==
    /\ pc = "blob_wait"
    /\ ~hung
    /\ blob_resp' = resp
    /\ LET file_info == files_to_process.list[idx]
           content   == get_file_content(resp)
           parts     == markdown_content \o Section(file_info.path, content)
           counts    == Counted(content, processed_count, skipped_count)
       IN  /\ markdown_content' = parts
           /\ processed_count' = counts.processed
           /\ skipped_count' = counts.skipped
           /\ idx' = idx + 1
           /\ IF idx < Len(files_to_process.list)
              THEN /\ Issue(Tail(inflight), BlobCall(files_to_process.list[idx + 1]))
                   /\ UNCHANGED << pc, result >>
              ELSE /\ Succeed(parts)
                   /\ calls' = calls
                   /\ inflight' = Tail(inflight)
    /\ UNCHANGED << request, owner, repo, default_branch, files_to_process,
                    hung, meta_resp, tree_resp, arg, ret >>

\* requests.get is called without a timeout (lines 42, 54, 79): a server that
\* accepts the call and never answers leaves it blocked for good
CallHangs ==
    /\ inflight # << >>
    /\ ~hung
    /\ hung' = TRUE
    /\ UNCHANGED << request, pc, owner, repo, default_branch, files_to_process,
                    idx, markdown_content, processed_count, skipped_count,
                    result, calls, inflight, meta_resp, tree_resp, blob_resp,
                    arg, ret >>

----------------------------------------------------------------------------
(* Specifications *)

NoUrl == Url("", << >>)

ConvertUrls == NamedUrls

Requests ==
    { [has_url |-> FALSE, url |-> NoUrl] }
    \cup { [has_url |-> TRUE, url |-> u] : u \in ConvertUrls }

NoMetaResp == [kind |-> "none", has_branch |-> FALSE, default_branch |-> ""]

NoTreeResp == [kind |-> "none", truncated |-> FALSE, has_tree |-> FALSE, tree |-> << >>]

NoBlobResp == [kind |-> "none", encoding |-> "", content |-> "absent", bytes |-> << >>]

\* the handler is entered with some request; nothing has been computed yet
Entered(reqs) ==
    /\ request \in reqs
    /\ pc = "start"
    /\ owner = NoneStr
    /\ repo = NoneStr
    /\ default_branch = NoneBranch
    /\ files_to_process = NoneFiles
    /\ idx = 0
    /\ markdown_content = << >>
    /\ processed_count = 0
    /\ skipped_count = 0
    /\ result = NoResult
    /\ calls = << >>
    /\ inflight = << >>
    /\ hung = FALSE
    /\ meta_resp = NoMetaResp
    /\ tree_resp = NoTreeResp
    /\ blob_resp = NoBlobResp

Init ==
    /\ Entered(Requests)
    /\ arg = << >>
    /\ ret = << >>

Next ==
    \/ ConvertStart
    \/ \E resp \in MetaResponses : MetaResponse(resp)
    \/ \E resp \in TreeResponses : TreeResponse(resp)
    \/ \E resp \in BlobResponses : BlobResponse(resp)
    \/ CallHangs

\* one conversion, from the POST to the response
Spec == Init /\ [][Next]_vars

\* a request without a URL, one with a URL that parses, one with a URL that
\* does not
LiveRequests ==
    { [has_url |-> FALSE, url |-> NoUrl] }
    \cup { [has_url |-> TRUE, url |-> u] : u \in { UrlPlain, UrlFtp } }

InitLive ==
    /\ Entered(LiveRequests)
    /\ arg = << >>
    /\ ret = << >>

\* one conversion where the handler runs on and every call that has not hung
\* is answered
LiveSpec ==
    /\ InitLive
    /\ [][Next]_vars
    /\ WF_vars(ConvertStart)
    /\ WF_vars(\E resp \in MetaResponses : MetaResponse(resp))
    /\ WF_vars(\E resp \in TreeResponses : TreeResponse(resp))
    /\ WF_vars(\E resp \in BlobResponses : BlobResponse(resp))

\* lines 115-119 on every generated URL
InitParse ==
    /\ Entered({ [has_url |-> TRUE, url |-> u] : u \in ParseUrls })
    /\ arg = << >>
    /\ ret = << >>

NextParse == ConvertStart

ParseSpec == InitParse /\ [][NextParse]_vars

TextChars == { 97, 98, 32, 10, 13 }

\* "a\n\n  \nb\n"
TextExample == << 97, 10, 10, 32, 32, 10, 98, 10 >>

Texts == SeqsUpTo(TextChars, MaxText) \cup { TextExample }

\* lines 152-154 on every generated text
InitFilter ==
    /\ Entered({ [has_url |-> FALSE, url |-> NoUrl] })
    /\ arg \in Texts
    /\ ret = << >>

\* lines 152-154, and once more on their own result
ApplyFilter ==
    /\ Len(ret) < 2
    /\ ret' = Append(ret, processed_content(IF ret = << >> THEN arg ELSE Last(ret)))
    /\ UNCHANGED << request, pc, owner, repo, default_branch, files_to_process,
                    idx, markdown_content, processed_count, skipped_count,
                    result, calls, inflight, hung, meta_resp, tree_resp,
                    blob_resp, arg >>

NextFilter == ApplyFilter

FilterSpec == InitFilter /\ [][NextFilter]_vars

----------------------------------------------------------------------------
(* Vocabulary of the properties *)

\* the handler has returned
Returned == pc = "done"

\* the handler has returned the document
Converted == Returned /\ result.status = 200

\* the atoms of kind k in a str, in order
OfKind(doc, k) == SelectSeq(doc, LAMBDA a : a.kind = k)

\* the paths named by the headings of a str, in order
HeadingPaths(doc) ==
    LET hs == OfKind(doc, "heading") IN [i \in 1..Len(hs) |-> hs[i].path]

\* the entries of type blob in the tree of the last tree response, in order
ListedBlobs ==
    LET t == tree_resp.tree
        at == { i \in 1..Len(t) : t[i].type = "blob" }
        \* the position in t of the n-th blob
        pos(n) == CHOOSE i \in at : Cardinality({ j \in at : j <= i }) = n
    IN  [n \in 1..Cardinality(at) |-> t[pos(n)]]

\* the part of a str from its n-th heading up to the next heading or the end
SectionOf(doc, n) ==
    LET hs    == { i \in 1..Len(doc) : doc[i].kind = "heading" }
        nth(m) == CHOOSE i \in hs : Cardinality({ j \in hs : j <= i }) = m
        first == nth(n)
        last  == IF n < Cardinality(hs) THEN nth(n + 1) - 1 ELSE Len(doc)
    IN  SubSeq(doc, first, last)

\* the section of a skipped file as it stands in the document: heading,
\* notice and separator, each on a line of its own
SkippedSection(path) ==
    << Atom("heading", path, << >>, << >>, 0), Chr(NL), Chr(NL),
       Lit("skip_notice"), Chr(NL), Chr(NL), Lit("separator"), Chr(NL) >>

----------------------------------------------------------------------------
(* Properties of convert_repo *)

ErrorResult(status, error) ==
    [status |-> status, error |-> error, final_markdown |-> << >>]

\* C1: a returned conversion carries exactly one outcome, decided by the
\* first step that fails, in the order parse, resolve branch, list files:
\* no owner or no repository name out of the URL gives 400 before any call is
\* answered; no branch out of the resolver gives 404 before the tree is
\* listed; a tree listing that failed gives 500 and a tree listing without a
\* blob entry gives 404, both before any file is fetched and neither with a
\* document; in every other case the outcome is 200 with a document.
C1_ErrorClassification ==
    Returned =>
        IF MissingUrl(request)
        THEN result = ErrorResult(400, "missing_url") /\ calls = << >>
        ELSE LET p == parse_github_url(request.url)
             IN  IF InvalidUrl(p.owner, p.repo)
                 THEN /\ result = ErrorResult(400, "invalid_url")
                      /\ meta_resp = NoMetaResp
                 ELSE IF NoBranch(default_branch)
                 THEN /\ result = ErrorResult(404, "no_branch")
                      /\ meta_resp # NoMetaResp
                      /\ tree_resp = NoTreeResp
                 ELSE IF tree_resp.kind # "ok"
                 THEN /\ result = ErrorResult(500, "no_file_list")
                      /\ tree_resp # NoTreeResp
                      /\ blob_resp = NoBlobResp
                 ELSE IF ListedBlobs = << >>
                 THEN /\ result = ErrorResult(404, "empty_repo")
                      /\ blob_resp = NoBlobResp
                 ELSE /\ result.status = 200
                      /\ result.error = ""
                      /\ result.final_markdown # << >>
                      /\ blob_resp # NoBlobResp

\* a tree listing that succeeded and holds a directory but no blob was
\* answered with the 404 of an empty repository
C1_Witness ==
    /\ Returned
    /\ tree_resp.kind = "ok"
    /\ tree_resp.tree = << DirS >>
    /\ result = ErrorResult(404, "empty_repo")


\* the three per-file outcomes of the claim: the fetch failed, the declared
\* encoding is not base64, the bytes are not UTF-8
SkipWorthy(resp) ==
    \/ resp.kind \in Failures
    \/ resp.kind = "ok" /\ resp.encoding # "base64"
    \/ /\ resp.kind = "ok"
       /\ resp.encoding = "base64"
       /\ resp.content = "valid"
       /\ decode_utf8(resp.bytes).none

\* C2: once the loop over a non-empty listing runs, the answer to a blob call
\* never aborts the conversion; when the fetch failed, or the encoding is not
\* base64, or the bytes are not UTF-8, the file is counted as skipped and not
\* as processed, and its section is the heading, the fixed notice and the
\* separator, with no character of the file in it; when it was the last
\* file the conversion returns the document.
C2_PerFileFailureAbsorbed ==
    [][ (pc = "blob_wait" /\ idx' = idx + 1) =>
          LET path == files_to_process.list[idx].path
              doc  == result'.final_markdown
          IN  /\ pc' \in { "blob_wait", "done" }
              /\ pc' = "done" => result'.status = 200 /\ result'.error = ""
              /\ pc' = "blob_wait" => result' = NoResult
              /\ SkipWorthy(blob_resp') =>
                   /\ skipped_count' = skipped_count + 1
                   /\ processed_count' = processed_count
                   /\ markdown_content' =
                        markdown_content
                          \o << HeadingStr(path), SkipNoticeStr, SeparatorStr >>
                   /\ pc' = "done" =>
                        /\ SectionOf(doc, idx) = SkippedSection(path)
                        /\ Len(OfKind(doc, "skip_notice")) = skipped_count'
      ]_vars

\* the last file came back as base64 of bytes that are not UTF-8, it was
\* skipped and the conversion returned the document
C2_Witness ==
    /\ Converted
    /\ blob_resp.kind = "ok"
    /\ blob_resp.encoding = "base64"
    /\ blob_resp.bytes = << 97, 255 >>
    /\ skipped_count >= 1

\* C3: in a returned document the title comes first and once, and it is
\* followed by exactly one section per blob entry of the tree listing, in the
\* order of the listing, each section being either a fenced body or a skip
\* notice, closed by one separator.
C3_SectionsInTreeOrder ==
    Converted =>
        LET doc   == result.final_markdown
            blobs == ListedBlobs
            p     == parse_github_url(request.url)
        IN  /\ doc[1] = Atom("title", "", p.owner, p.repo, 0)
            /\ Len(OfKind(doc, "title")) = 1
            /\ HeadingPaths(doc) = [i \in 1..Len(blobs) |-> blobs[i].path]
            /\ \A n \in 1..Len(blobs) :
                 LET sec == SectionOf(doc, n)
                 IN  /\ Len(OfKind(sec, "separator")) = 1
                     /\ \/ /\ Len(OfKind(sec, "fence")) = 2
                           /\ Len(OfKind(sec, "skip_notice")) = 0
                        \/ /\ Len(OfKind(sec, "fence")) = 0
                           /\ Len(OfKind(sec, "skip_notice")) = 1

\* a listing of b.bin before a.txt, one of them processed and one skipped,
\* gave a document with the two sections in that order
C3_Witness ==
    /\ Converted
    /\ HeadingPaths(result.final_markdown) = << "b.bin", "a.txt" >>
    /\ processed_count = 1
    /\ skipped_count = 1

\* C4: at every point of the loop processed_count + skipped_count is the
\* number of entries handled so far, which is also the number of sections
\* written; a listing with a blob entry, truncated or not, ends in a returned
\* document, and there the sum is the number of blob entries listed.
C4_CountsMatchEntries ==
    /\ pc = "blob_wait" =>
         /\ idx \in 1..Len(ListedBlobs)
         /\ processed_count + skipped_count = idx - 1
         /\ Len(OfKind(final_markdown(markdown_content), "heading")) = idx - 1
    /\ (Returned /\ tree_resp.kind = "ok" /\ ListedBlobs # << >>) =>
         /\ Converted
         /\ processed_count + skipped_count = Len(ListedBlobs)
         /\ Len(OfKind(result.final_markdown, "heading")) = Len(ListedBlobs)

\* a truncated listing was converted, with a processed and a skipped file
C4_Witness ==
    /\ Converted
    /\ tree_resp.truncated
    /\ processed_count >= 1
    /\ skipped_count >= 1

\* the calls for the first n blob entries of the listing, in order
BlobCalls(n) ==
    [i \in 1..n |-> Call("blob", << >>, << >>, "", ListedBlobs[i].url)]

\* C9: the calls of one conversion are a single pass: none when the URL is
\* rejected; else the metadata call first and once; the tree call once and
\* only after the metadata call was answered well; the blob calls only
\* after a listing with a blob entry, one per entry in the order of the
\* listing; never two calls in flight, no call repeated, and none in flight
\* or added once the conversion has returned.
C9_CallProtocol ==
    LET meta == MetaCall(owner, repo)
        tree == TreeCall(owner, repo, default_branch)
    IN  /\ Len(inflight) <= 1
        /\ pc = "start" => calls = << >> /\ inflight = << >>
        /\ pc = "meta_wait" => calls = << meta >> /\ inflight = << meta >>
        /\ pc = "tree_wait" =>
             /\ calls = << meta, tree >>
             /\ inflight = << tree >>
             /\ meta_resp.kind = "ok"
        /\ pc = "blob_wait" =>
             /\ calls = << meta, tree >> \o BlobCalls(idx)
             /\ inflight = << Last(calls) >>
             /\ tree_resp.kind = "ok"
        /\ Returned =>
             /\ inflight = << >>
             /\ result.status = 400 => calls = << >>
             /\ result.error = "no_branch" => calls = << meta >>
             /\ result.error \in { "no_file_list", "empty_repo" } =>
                  calls = << meta, tree >>
             /\ result.status = 200 =>
                  calls = << meta, tree >> \o BlobCalls(Len(ListedBlobs))

\* a conversion of two files returned after exactly four calls
C9_Witness ==
    /\ Converted
    /\ Len(ListedBlobs) = 2
    /\ Len(calls) = 4


\* C5: the resolver gives the default_branch of a metadata answer that has a
\* non-empty one, "main" when the call succeeded and the field is absent or
\* empty, and no branch, never "main", when the call failed; so a metadata
\* call that succeeded never ends in the 404 of a failed resolution.
C5_BranchResolution ==
    meta_resp # NoMetaResp =>
        /\ meta_resp.kind \in Failures => default_branch = NoneBranch
        /\ meta_resp.kind = "ok" =>
             /\ default_branch =
                  IF /\ meta_resp.has_branch
                     /\ meta_resp.default_branch \notin { "", NoneBranch }
                  THEN meta_resp.default_branch
                  ELSE "main"
             /\ Returned => result.error # "no_branch"

----------------------------------------------------------------------------
(* Properties of parse_github_url *)

\* no "/" among s[a..b]
NoSlash(s, a, b) == \A i \in a..b : s[i] # "/"

\* some prefix of the URL is https?://github\.com/ + name + "/" + name
MatchesHttps(url) ==
    LET t == url.tail
    IN  /\ url.prefix \in HttpsPrefixes
        /\ \E n1, n2 \in 1..Len(t) :
             /\ n1 + 1 + n2 <= Len(t)
             /\ NoSlash(t, 1, n1)
             /\ t[n1 + 1] = "/"
             /\ NoSlash(t, n1 + 2, n1 + 1 + n2)

\* some prefix of the URL is git@github\.com: + name + "/" + name + ".git"
MatchesSsh(url) ==
    LET t == url.tail
    IN  /\ url.prefix \in SshPrefixes
        /\ \E n1, k \in 1..Len(t) :
             /\ n1 + k + 2 <= Len(t)
             /\ NoSlash(t, 1, n1)
             /\ t[n1 + 1] = "/"
             /\ NoSlash(t, n1 + 2, n1 + 1 + k)
             /\ t[n1 + k + 2] = ".git"

\* the handler is past line 119
Parsed == pc # "start" /\ request.has_url

\* C6: https://github.com/o/r, https://github.com/o/r.git,
\* https://github.com/o/r/tree/main and git@github.com:o/r.git all parse to
\* owner "o" and name "r" and the conversion goes on; a URL that the HTTPS
\* pattern matches is parsed by it; a URL that neither pattern matches parses
\* to nothing and the conversion returns 400 without a call.
C6_ParseShapes ==
    Parsed =>
        /\ request.url \in { UrlPlain, UrlDotGit, UrlTree, UrlSsh } =>
             /\ owner = << "o" >>
             /\ repo = << "r" >>
             /\ pc = "meta_wait"
        /\ MatchesHttps(request.url) =>
             owner = SubSeq(request.url.tail, 1, Len(owner))
        /\ MatchesHttps(request.url) \/ MatchesSsh(request.url) =>
             owner # NoneStr /\ repo # NoneStr
        /\ ~MatchesHttps(request.url) /\ ~MatchesSsh(request.url) =>
             /\ owner = NoneStr
             /\ repo = NoneStr
             /\ result = ErrorResult(400, "invalid_url")
             /\ calls = << >>

\* git@github.com:o/r.git was parsed to o and r and the metadata call made
C6_Witness ==
    /\ pc = "meta_wait"
    /\ request.url = UrlSsh
    /\ owner = << "o" >>
    /\ repo = << "r" >>

\* the text the second group of the matching pattern captured
CapturedRepo(url) ==
    IF MatchHttps(url).matched THEN MatchHttps(url).repo ELSE MatchSsh(url).repo

\* C7: for every URL one of the two patterns matches, the parsed owner and
\* name are both non-empty, and the name is the captured text without its
\* trailing ".git".
C7_RefNonEmpty ==
    (Parsed /\ (MatchesHttps(request.url) \/ MatchesSsh(request.url))) =>
        /\ owner # << >>
        /\ repo # << >>
        /\ repo = IF EndsWithGit(CapturedRepo(request.url))
                  THEN Front(CapturedRepo(request.url))
                  ELSE CapturedRepo(request.url)

----------------------------------------------------------------------------
(* Properties of the blank-line filter *)

\* the lines of a text that have a character that is not white space
KeptLines(text) ==
    SelectSeq(splitlines(text), LAMBDA l : \E i \in 1..Len(l) : l[i] \notin Whitespace)

\* a body cut at every "\n"
RECURSIVE SplitNL(_)
SplitNL(s) ==
    IF \A i \in 1..Len(s) : s[i] # NL THEN << s >>
    ELSE LET j == CHOOSE i \in 1..Len(s) :
                      s[i] = NL /\ \A m \in 1..(i - 1) : s[m] # NL
         IN  << SubSeq(s, 1, j - 1) >> \o SplitNL(SubSeq(s, j + 1, Len(s)))

\* the characters of a text that are not white space, in order
Ink(text) == SelectSeq(text, LAMBDA c : c \notin Whitespace)

\* C8: the body of a text file is its lines that are not blank, in their
\* order and each as it was, with one "\n" between two of them and none at
\* the end; no character that is not white space is lost; "a\n\n  \nb\n"
\* gives "a\nb"; filtering the body again gives the body.
C8_BlankLineFilter ==
    Len(ret) >= 1 =>
        LET body == ret[1]
            kept == KeptLines(arg)
        IN  /\ IF kept = << >> THEN body = << >> ELSE SplitNL(body) = kept
            /\ Ink(body) = Ink(arg)
            /\ body # << >> => Last(body) # NL
            /\ arg = TextExample => body = << 97, 10, 98 >>
            /\ Len(ret) = 2 => ret[2] = body

\* "a\n\n  \nb\n" was filtered to "a\nb", and that once more to itself
C8_Witness ==
    /\ arg = TextExample
    /\ Len(ret) = 2
    /\ ret[1] = << 97, 10, 98 >>

----------------------------------------------------------------------------
(* Termination *)

====
